---------------------------- MODULE Spec2Model ----------------------------
(***************************************************************************)
(* Money-mule detection engine: the transaction graph, the cycle, shell    *)
(* and smurfing detectors, and the ring scorer of analyze_transactions.    *)
(*                                                                         *)
(* Conventions of the model                                                *)
(*  - an account ID is a natural number; the order of the numbers is the   *)
(*    lexicographic order of the ID strings (sorted() in main.py);         *)
(*  - a vertex index is the position of the account in graph.vs, counted   *)
(*    from 1 (igraph counts from 0; only the order of indices is used);    *)
(*  - a timestamp is a number of minutes; pd.Timedelta(hours=h) is 60*h;   *)
(*  - a score is a number of tenths (65.0 is 650, 99.5 is 995).            *)
(***************************************************************************)
EXTENDS Integers, Sequences, FiniteSets, TLC

VARIABLES
    ledger,                   \* df: the sequence of transaction records
    graph,                    \* main.py: graph, built from the ledger
    args,                     \* the detectors' keyword arguments
    order,                    \* the run's unordered choices (sort ties, set iteration)
    pc,                       \* position in the analysis
    cycles,                   \* result of find_cycles_dfs
    smurfs,                   \* result of detect_smurfing
    shells,                   \* result of detect_shells
    rings,                    \* main.py: rings
    ring_pos,                 \* main.py: position of `for ring in rings`
    seen_ring_ids,            \* main.py: seen_ring_ids
    ring_counter,             \* main.py: ring_counter
    formatted_rings,          \* main.py: formatted_rings
    account_ring_memberships, \* main.py: account_ring_memberships (insertion-ordered)
    final_accounts            \* main.py: final_accounts

vars == <<ledger, graph, args, order, pc, cycles, smurfs, shells, rings, ring_pos,
          seen_ring_ids, ring_counter, formatted_rings,
          account_ring_memberships, final_accounts>>

-----------------------------------------------------------------------------
(* Sequences and sets *)

Range(s) == {s[i] : i \in 1..Len(s)}

SetMin(S) == CHOOSE x \in S : \A y \in S : x <= y

SetMax(S) == CHOOSE x \in S : \A y \in S : x >= y

\* tuple.index(x) / `x in list`: the first position of x in s, 0 when absent
IndexIn(s, x) ==
    IF x \in Range(s) THEN SetMin({i \in 1..Len(s) : s[i] = x}) ELSE 0

\* a sequence given as a function, as an explicit tuple
Strict(s) == s \o <<>>

\* sum(s); the range lo..hi is split in halves to keep the evaluation shallow
RECURSIVE SumRange(_, _, _)
SumRange(s, lo, hi) ==
    IF lo > hi THEN 0
    ELSE IF lo = hi THEN s[lo]
    ELSE LET mid == (lo + hi) \div 2
         IN  SumRange(s, lo, mid) + SumRange(s, mid + 1, hi)

SumSeq(s) == SumRange(s, 1, Len(s))

\* n copies of x
Repeat(x, n) == [i \in 1..n |-> x]

\* the concatenation of the sequences ss[lo], ..., ss[hi]
RECURSIVE FlattenRange(_, _, _)
FlattenRange(ss, lo, hi) ==
    IF lo > hi THEN <<>>
    ELSE IF lo = hi THEN Strict(ss[lo])
    ELSE LET mid == (lo + hi) \div 2
         IN  FlattenRange(ss, lo, mid) \o FlattenRange(ss, mid + 1, hi)

Flatten(ss) == FlattenRange(ss, 1, Len(ss))

\* the subsequence of s at the positions in I
RECURSIVE SelectRange(_, _, _, _)
SelectRange(s, I, lo, hi) ==
    IF lo > hi THEN <<>>
    ELSE IF lo = hi THEN (IF lo \in I THEN <<s[lo]>> ELSE <<>>)
    ELSE LET mid == (lo + hi) \div 2
         IN  SelectRange(s, I, lo, mid) \o SelectRange(s, I, mid + 1, hi)

SelectIdx(s, I) == SelectRange(s, I, 1, Len(s))

\* dict.fromkeys(s): first occurrences, in order
FirstKeys(t) ==
    SelectIdx(t, {i \in 1..Len(t) : \A j \in 1..(i - 1) : t[j] # t[i]})

DictFromKeys(s) == FirstKeys(Strict(s))

\* sorted(list): ascending, duplicates kept
Sorted_AsGiven(s) == s

RECURSIVE Sorted(_)
Sorted(s) ==
    IF s = <<>> THEN <<>>
    ELSE LET m == SetMin(Range(s))
         IN  SelectIdx(s, {i \in 1..Len(s) : s[i] = m})
             \o Sorted(SelectIdx(s, {i \in 1..Len(s) : s[i] # m}))

\* the elements of a set as a list, ascending or descending
RECURSIVE SetToSeqAsc(_)
SetToSeqAsc(S) ==
    IF S = {} THEN <<>> ELSE <<SetMin(S)>> \o SetToSeqAsc(S \ {SetMin(S)})

Reverse(s) == [i \in 1..Len(s) |-> s[Len(s) + 1 - i]]

-----------------------------------------------------------------------------
(* The transaction graph: igraph.Graph.TupleList(edges, directed=True)     *)

\* zip(df['sender_id'], df['receiver_id'], df['amount'])
Edges(df) == [i \in 1..Len(df) |->
                 <<df[i].sender_id, df[i].receiver_id, df[i].amount>>]

\* the neighbour indices of v along its outgoing (dir = "out") or incoming
\* (dir = "in") edges, ascending, one entry per edge
Neighbors(es, v, dir) ==
    IF dir = "out"
    THEN Sorted(SelectIdx([i \in 1..Len(es) |-> es[i].target],
                          {i \in 1..Len(es) : es[i].source = v}))
    ELSE Sorted(SelectIdx([i \in 1..Len(es) |-> es[i].source],
                          {i \in 1..Len(es) : es[i].target = v}))

\* the adjacency lists of the vertices 1..k
RECURSIVE AdjLists(_, _, _)
AdjLists(es, k, dir) ==
    IF k = 0 THEN <<>>
    ELSE Append(AdjLists(es, k - 1, dir), Neighbors(es, k, dir))

\* a graph from its vertex names and its edge list, with the adjacency
\* lists igraph keeps for successors(), predecessors() and degree()
MkGraph(names, es) ==
    LET edges == Strict(es)
    IN  [name |-> Strict(names), es |-> edges,
         succ |-> AdjLists(edges, Len(names), "out"),
         pred |-> AdjLists(edges, Len(names), "in")]

\* TupleList numbers the vertices in the order their names first appear,
\* reading each edge's source and then its target.
TupleList(edges) ==
    LET ends  == [k \in 1..(2 * Len(edges)) |->
                     IF k % 2 = 1 THEN edges[(k + 1) \div 2][1] ELSE edges[k \div 2][2]]
        names == DictFromKeys(ends)
    IN  MkGraph(names,
                [i \in 1..Len(edges) |->
                     [source |-> IndexIn(names, edges[i][1]),
                      target |-> IndexIn(names, edges[i][2]),
                      amount |-> edges[i][3]]])

vcount(g) == Len(g.name)

ecount(g) == Len(g.es)

Vs(g) == 1..vcount(g)

\* graph.successors(v) / graph.predecessors(v): neighbour indices ascending,
\* one entry per edge (a parallel edge repeats its neighbour)
successors(g, v) == g.succ[v]

predecessors(g, v) == g.pred[v]

\* v.degree(mode="out"), v.degree(mode="in"), v.degree(): a self-loop counts
\* once as out, once as in, twice in the total degree
OutDegree(g, v) == Len(g.succ[v])

InDegree(g, v) == Len(g.pred[v])

Degree(g, v) == OutDegree(g, v) + InDegree(g, v)

\* graph.subgraph(indices): the induced subgraph; its vertices are the given
\* ones in ascending index order, renumbered from 1
subgraph(g, indices) ==
    LET keep == SetToSeqAsc(Range(indices))
        kept == SelectIdx(g.es, {i \in 1..Len(g.es) :
                              g.es[i].source \in Range(keep)
                              /\ g.es[i].target \in Range(keep)})
    IN  MkGraph([i \in 1..Len(keep) |-> g.name[keep[i]]],
                [i \in 1..Len(kept) |->
                     [source |-> IndexIn(keep, kept[i].source),
                      target |-> IndexIn(keep, kept[i].target),
                      amount |-> kept[i].amount]])

-----------------------------------------------------------------------------
(* graph_dsa.find_cycles_dfs *)

\* out <= 100: the hub cap of the candidate filter
HubCap == 100

\* a candidate filter that asks for more than one incoming edge
IsCycleCandidate_InAboveOne(g, v) ==
    /\ 0 < Len(g.succ[v])
    /\ Len(g.succ[v]) <= HubCap
    /\ Len(g.pred[v]) > 1

\* candidates = [v.index for v in graph.vs if 0 < out <= 100 and in > 0]
IsCycleCandidate(g, v) ==
    /\ 0 < OutDegree(g, v)
    /\ OutDegree(g, v) <= HubCap
    /\ InDegree(g, v) > 0

CycleCandidates(g) ==
    SelectIdx([v \in 1..vcount(g) |-> v],
              {v \in Vs(g) : IsCycleCandidate(g, v)})

\* a dedup key that is not rotated
Canonical_Unrotated(cycle_indices) == cycle_indices

\* the canonical rotation: the path rotated to start at its minimum index
Canonical(cycle_indices) ==
    LET min_i   == SetMin(Range(cycle_indices))
        min_pos == IndexIn(cycle_indices, min_i)
    IN  SubSeq(cycle_indices, min_pos, Len(cycle_indices))
        \o SubSeq(cycle_indices, 1, min_pos - 1)

\* a visit that reports a closed path without the lower length bound
VisitNeighbor_NoMinLen(g, start_node_idx, path, neighbor, min_len, max_len, st) ==
    IF neighbor = start_node_idx
    THEN IF Len(path) <= max_len
         THEN LET canonical == Canonical(path)
              IN  IF canonical \notin st.seen_cycles
                  THEN [st EXCEPT
                          !.seen_cycles = @ \cup {canonical},
                          !.cycles = Append(@,
                              [type     |-> "cycle",
                               members  |-> [i \in 1..Len(path) |-> g.name[path[i]]],
                               metadata |-> [length |-> Len(path)]])]
                  ELSE st
         ELSE st
    ELSE IF IndexIn(path, neighbor) = 0
         THEN IF Len(path) < max_len
              THEN [st EXCEPT !.stack = Append(@, <<neighbor, Append(path, neighbor)>>)]
              ELSE st
         ELSE st

\* the body of `if neighbor == start_node_idx: ... elif neighbor not in path:`
\* st = [stack, cycles, seen_cycles]
VisitNeighbor(g, start_node_idx, path, neighbor, min_len, max_len, st) ==
    IF neighbor = start_node_idx
    THEN IF min_len <= Len(path) /\ Len(path) <= max_len
         THEN LET canonical == Canonical(path)
              IN  IF canonical \notin st.seen_cycles
                  THEN [st EXCEPT
                          !.seen_cycles = @ \cup {canonical},
                          !.cycles = Append(@,
                              [type     |-> "cycle",
                               members  |-> [i \in 1..Len(path) |-> g.name[path[i]]],
                               metadata |-> [length |-> Len(path)]])]
                  ELSE st
         ELSE st
    ELSE IF IndexIn(path, neighbor) = 0
         THEN IF Len(path) < max_len
              THEN [st EXCEPT !.stack = Append(@, <<neighbor, Append(path, neighbor)>>)]
              ELSE st
         ELSE st

\* for neighbor in neighbors: the neighbours lo..hi in order (the range is
\* split in halves to keep the evaluation shallow)
RECURSIVE ForNeighbors(_, _, _, _, _, _, _, _, _)
ForNeighbors(g, start_node_idx, path, neighbors, lo, hi, min_len, max_len, st) ==
    IF lo > hi THEN st
    ELSE IF lo = hi
    THEN VisitNeighbor(g, start_node_idx, path, neighbors[lo], min_len, max_len, st)
    ELSE LET mid   == (lo + hi) \div 2
             first == ForNeighbors(g, start_node_idx, path, neighbors, lo, mid,
                                   min_len, max_len, st)
         IN  \* the first half is evaluated before the second half starts
             IF first.stack = first.stack
             THEN ForNeighbors(g, start_node_idx, path, neighbors, mid + 1, hi,
                               min_len, max_len, first)
             ELSE first

\* while stack: curr, path = stack.pop() ...
RECURSIVE WhileStack(_, _, _, _, _)
WhileStack(g, start_node_idx, min_len, max_len, st) ==
    IF st.stack = <<>> THEN st
    ELSE LET top    == st.stack[Len(st.stack)]
             curr   == top[1]
             path   == top[2]
             popped == [st EXCEPT !.stack = SubSeq(@, 1, Len(@) - 1)]
         IN  IF Len(path) > max_len
             THEN WhileStack(g, start_node_idx, min_len, max_len, popped)
             ELSE WhileStack(g, start_node_idx, min_len, max_len,
                      ForNeighbors(g, start_node_idx, path,
                                   successors(g, curr),
                                   1, Len(successors(g, curr)),
                                   min_len, max_len, popped))

\* for start_node_idx in candidates
RECURSIVE ForCandidates(_, _, _, _, _, _)
ForCandidates(g, candidates, k, min_len, max_len, st) ==
    IF k > Len(candidates) THEN st
    ELSE ForCandidates(g, candidates, k + 1, min_len, max_len,
             WhileStack(g, candidates[k], min_len, max_len,
                 [st EXCEPT !.stack = << <<candidates[k], <<candidates[k]>> >> >>]))

find_cycles_dfs(g, min_len, max_len) ==
    ForCandidates(g, CycleCandidates(g), 1, min_len, max_len,
                  [stack |-> <<>>, cycles |-> <<>>, seen_cycles |-> {}]).cycles

-----------------------------------------------------------------------------
(* detect_smurfing(df, window_hours, count_threshold)                      *)

\* df.sort_values('timestamp'): ascending timestamps.  The default sort is
\* not stable: rows of equal timestamp keep their order (ties = "stable")
\* or come out in the opposite order, as the run has it.  The detector sorts
\* twice, the whole ledger (order.ties) and then each hub's rows
\* (order.hub_ties).
sort_values(df, ties) ==
    LET n == Len(df)
        before(j, i) ==
            \/ df[j].timestamp < df[i].timestamp
            \/ /\ df[j].timestamp = df[i].timestamp
               /\ IF ties = "stable" THEN j < i ELSE j > i
        rank == Strict([i \in 1..n |-> Cardinality({j \in 1..n : before(j, i)}) + 1])
    IN  Strict([k \in 1..n |-> df[CHOOSE i \in 1..n : rank[i] = k]])

\* df.groupby(hub_col)[peer_col].nunique(), kept where >= count_threshold:
\* the index of a groupby is sorted by key
SuspiciousHubs(df, hub_col, peer_col, count_threshold) ==
    SetToSeqAsc({h \in {df[i][hub_col] : i \in 1..Len(df)} :
        Cardinality({df[i][peer_col] : i \in {j \in 1..Len(df) : df[j][hub_col] = h}})
            >= count_threshold})

\* df[df[hub_col] == hub].sort_values('timestamp')
HubFrame(df, hub_col, hub, ties) ==
    sort_values(SelectIdx(df, {i \in 1..Len(df) : df[i][hub_col] = hub}), ties)

Amounts(hub_df) == [i \in 1..Len(hub_df) |-> hub_df[i].amount]

\* receiver_df['amount'].mean() > 2000
MerchantTrap_Never(hub_df) == FALSE

MerchantTrap(hub_df) == SumSeq(Amounts(hub_df)) > 2000 * Len(hub_df)

\* pd.isna(std_amount) or std_amount < 1.0, std being the sample standard
\* deviation: NaN for a single row, else sqrt(sum((x - mean)^2) / (n - 1)).
\* With d = x - min(x) this is n * sum(d^2) - sum(d)^2 < n * (n - 1); a range
\* R of the amounts with R^2 >= 2 * (n - 1) puts the deviation at 1 or more
\* (sum((x - mean)^2) >= R^2 / 2), and is decided first to keep the numbers
\* small.
PayrollTrap(hub_df) ==
    LET n    == Len(hub_df)
        low  == SetMin(Range(Amounts(hub_df)))
        high == SetMax(Range(Amounts(hub_df)))
        devs == [i \in 1..n |-> hub_df[i].amount - low]
        sqs  == [i \in 1..n |-> devs[i] * devs[i]]
    IN  \/ n < 2
        \/ /\ (high - low) * (high - low) < 2 * (n - 1)
           /\ n * SumSeq(sqs) - SumSeq(devs) * SumSeq(devs) < n * (n - 1)

\* window_senders[s_end] += 1, the key created at 0 when absent
DictInc(dct, key) ==
    IF key \in DOMAIN dct
    THEN [dct EXCEPT ![key] = @ + 1]
    ELSE [x \in DOMAIN dct \cup {key} |-> IF x = key THEN 1 ELSE dct[x]]

\* window_senders[s_start] -= 1, the key deleted when it reaches 0
DictDec(dct, key) ==
    IF dct[key] = 1
    THEN [x \in DOMAIN dct \ {key} |-> dct[x]]
    ELSE [dct EXCEPT ![key] = @ - 1]

\* while times[end] - times[start] > window_td: drop the row at start
ShrinkWindow_Never(hub_df, peer_col, end, window_td, w) == w

RECURSIVE ShrinkWindow(_, _, _, _, _)
ShrinkWindow(hub_df, peer_col, end, window_td, w) ==
    IF hub_df[end].timestamp - hub_df[w.start].timestamp > window_td
    THEN LET p_start == hub_df[w.start][peer_col]
             counts  == DictDec(w.window_peers, p_start)
         IN  ShrinkWindow(hub_df, peer_col, end, window_td,
                 [w EXCEPT !.window_peers = counts,
                           !.distinct_count =
                               IF p_start \in DOMAIN counts THEN @ ELSE @ - 1,
                           !.start = @ + 1])
    ELSE w

\* for end in range(n): the two-pointer scan, rows end..n
RECURSIVE ScanWindow_KeepFirst(_, _, _, _, _, _)
ScanWindow_KeepFirst(hub_df, peer_col, end, window_td, count_threshold, w) ==
    IF end > Len(hub_df) THEN w
    ELSE LET p_end   == hub_df[end][peer_col]
             added   == [w EXCEPT !.window_peers = DictInc(@, p_end),
                                  !.distinct_count =
                                      IF p_end \in DOMAIN w.window_peers
                                      THEN @ ELSE @ + 1]
             shrunk  == ShrinkWindow(hub_df, peer_col, end, window_td, added)
             current_members == DOMAIN shrunk.window_peers
             kept    == IF /\ shrunk.distinct_count >= count_threshold
                           /\ shrunk.best_window_members = {}
                        THEN [shrunk EXCEPT !.best_window_members = current_members]
                        ELSE shrunk
         IN  ScanWindow_KeepFirst(hub_df, peer_col, end + 1, window_td,
                                  count_threshold, kept)

RECURSIVE ScanWindow(_, _, _, _, _, _)
ScanWindow(hub_df, peer_col, end, window_td, count_threshold, w) ==
    IF end > Len(hub_df) THEN w
    ELSE LET p_end   == hub_df[end][peer_col]
             added   == [w EXCEPT !.window_peers = DictInc(@, p_end),
                                  !.distinct_count =
                                      IF p_end \in DOMAIN w.window_peers
                                      THEN @ ELSE @ + 1]
             shrunk  == ShrinkWindow(hub_df, peer_col, end, window_td, added)
             current_members == DOMAIN shrunk.window_peers
             kept    == IF /\ shrunk.distinct_count >= count_threshold
                           /\ Cardinality(current_members)
                                  > Cardinality(shrunk.best_window_members)
                        THEN [shrunk EXCEPT !.best_window_members = current_members]
                        ELSE shrunk
         IN  ScanWindow(hub_df, peer_col, end + 1, window_td, count_threshold, kept)

\* list(best_window_members): a set has no order of its own
ListOfSet(S, sets) == IF sets = "asc" THEN SetToSeqAsc(S) ELSE Reverse(SetToSeqAsc(S))

\* the body of `for receiver in sus_receivers` / `for sender in sus_senders`:
\* the findings (none or one) of one hub
HubFindings(df, hub, hub_col, peer_col, type, window_hours, count_threshold, ord) ==
    LET hub_df == HubFrame(df, hub_col, hub, ord.hub_ties)
        trap   == IF hub_col = "receiver_id"
                  THEN MerchantTrap(hub_df) ELSE PayrollTrap(hub_df)
        best   == ScanWindow(hub_df, peer_col, 1, 60 * window_hours, count_threshold,
                             [start |-> 1, window_peers |-> <<>>,
                              distinct_count |-> 0,
                              best_window_members |-> {}]).best_window_members
    IN  IF trap THEN <<>>
        ELSE IF Cardinality(best) >= count_threshold
        THEN << [type     |-> type,
                 members  |-> <<hub>> \o ListOfSet(best, ord.sets),
                 metadata |-> [central_node |-> hub,
                               unique_peers |-> Cardinality(best)]] >>
        ELSE <<>>

\* one direction of the detector: the findings of its suspicious hubs
Fan(df, hub_col, peer_col, type, window_hours, count_threshold, ord) ==
    LET sus == SuspiciousHubs(df, hub_col, peer_col, count_threshold)
    IN  Flatten([k \in 1..Len(sus) |->
            HubFindings(df, sus[k], hub_col, peer_col, type,
                        window_hours, count_threshold, ord)])

detect_smurfing(df0, window_hours, count_threshold, ord) ==
    LET df == sort_values(df0, ord.ties)
    IN  Fan(df, "receiver_id", "sender_id", "smurfing (fan-in)",
            window_hours, count_threshold, ord)
        \o Fan(df, "sender_id", "receiver_id", "smurfing (fan-out)",
               window_hours, count_threshold, ord)

-----------------------------------------------------------------------------
(* detect_shells(graph, min_hops)                                          *)

\* 2 <= v.degree() <= 3 and v.degree(mode="in") >= 1 and v.degree(mode="out") >= 1
IsShellCandidate(g, v) ==
    /\ 2 <= Degree(g, v)
    /\ Degree(g, v) <= 3
    /\ InDegree(g, v) >= 1
    /\ OutDegree(g, v) >= 1

\* shell_candidates_indices, in the order of graph.vs
ShellCandidates(g) == SetToSeqAsc({v \in Vs(g) : IsShellCandidate(g, v)})

\* the vertices joined to S by edges taken in either direction
RECURSIVE WeakClosure(_, _)
WeakClosure(g, S) ==
    LET T == S \cup UNION {Range(g.succ[v]) \cup Range(g.pred[v]) : v \in S}
    IN  IF T = S THEN S ELSE WeakClosure(g, T)

RECURSIVE ComponentsFrom(_, _)
ComponentsFrom(g, rest) ==
    IF rest = {} THEN <<>>
    ELSE LET cluster == WeakClosure(g, {SetMin(rest)})
         IN  <<SetToSeqAsc(cluster)>> \o ComponentsFrom(g, rest \ cluster)

\* g.connected_components(mode="weak"): the clusters in the order of their
\* smallest vertex, each cluster's vertices ascending
connected_components(g) == ComponentsFrom(g, Vs(g))

\* for each neighbour of the popped node: degrees[nei]--, and the
\* neighbour joins the queue of sources when its degree reaches 0
RECURSIVE RelaxNeighbors(_, _, _)
RelaxNeighbors(neis, i, st) ==
    IF i > Len(neis) THEN st
    ELSE LET nei == neis[i]
             deg == st.degrees[nei] - 1
         IN  RelaxNeighbors(neis, i + 1,
                 [st EXCEPT !.degrees[nei] = deg,
                            !.sources = IF deg = 0 THEN Append(@, nei) ELSE @])

\* while the queue of sources is not empty: pop its first node into res
RECURSIVE KahnLoop(_, _)
KahnLoop(g, st) ==
    IF st.sources = <<>> THEN st
    ELSE LET node   == Head(st.sources)
             popped == [st EXCEPT !.sources = Tail(@),
                                  !.res = Append(@, node),
                                  !.degrees[node] = -1]
         IN  KahnLoop(g, RelaxNeighbors(successors(g, node), 1, popped))

KahnResult(g) ==
    LET degrees == [v \in Vs(g) |-> InDegree(g, v)]
    IN  KahnLoop(g, [degrees |-> degrees,
                     sources |-> SetToSeqAsc({v \in Vs(g) : degrees[v] = 0}),
                     res     |-> <<>>]).res

topological_sorting_ListOnCycle(g) ==
    [raised |-> FALSE,
     res    |-> IF Len(KahnResult(g)) < vcount(g)
                THEN SetToSeqAsc(Vs(g)) ELSE KahnResult(g)]

\* g.topological_sorting(): the sources are removed in queue order, the
\* in-degrees counting self-loops and parallel edges; igraph raises
\* InternalError when vertices remain (the graph has a cycle)
topological_sorting(g) ==
    [raised |-> Len(KahnResult(g)) < vcount(g), res |-> KahnResult(g)]

\* the body of `for cluster in components` once the cluster is long enough:
\* the findings (none or one) of the component original_indices
ShellFinding(g, original_indices) ==
    LET sub_g == subgraph(g, original_indices)
        topo  == topological_sorting(sub_g)
        sorted_original_indices ==
            [i \in 1..Len(topo.res) |-> original_indices[topo.res[i]]]
        chain_start_idx == sorted_original_indices[1]
        chain_end_idx   == sorted_original_indices[Len(sorted_original_indices)]
        preds == predecessors(g, chain_start_idx)
        succs == successors(g, chain_end_idx)
        heads == SelectIdx(preds, {i \in 1..Len(preds) :
                                      preds[i] \notin Range(original_indices)})
        tails == SelectIdx(succs, {i \in 1..Len(succs) :
                                      succs[i] \notin Range(original_indices)})
        head_names  == [i \in 1..Len(heads) |-> g.name[heads[i]]]
        tail_names  == [i \in 1..Len(tails) |-> g.name[tails[i]]]
        shell_names == [i \in 1..Len(sorted_original_indices) |->
                            g.name[sorted_original_indices[i]]]
        full_members == head_names \o shell_names \o tail_names
    IN  IF 5 * ecount(sub_g) < 6 * vcount(sub_g)    \* n_edges < n_nodes * 1.2
        THEN IF topo.raised THEN <<>>
             ELSE << [type     |-> "layered_shell",
                      members  |-> DictFromKeys(full_members),
                      metadata |-> [size   |-> Len(full_members),
                                    layers |-> Len(shell_names)]] >>
        ELSE <<>>

detect_shells(g, min_hops) ==
    LET shell_candidates_indices == ShellCandidates(g)
        shell_graph == subgraph(g, shell_candidates_indices)
        components  == connected_components(shell_graph)
    IN  IF Len(shell_candidates_indices) < 2 THEN <<>>
        ELSE Flatten([k \in 1..Len(components) |->
                 IF Len(components[k]) >= min_hops
                 THEN ShellFinding(g, [i \in 1..Len(components[k]) |->
                                          shell_candidates_indices[components[k][i]]])
                 ELSE <<>>])

-----------------------------------------------------------------------------
(* analyze_transactions: scoring and formatting of the findings            *)

\* Pattern weights.  rtype = ring["type"].lower(): the type strings of the
\* three detectors are lowercase already; "smurfing"/"fan", "cycle" and
\* "layered" are substrings of exactly the types listed.
BaseScore_CycleUnweighted(rtype) ==
    IF rtype \in {"smurfing (fan-in)", "smurfing (fan-out)"} THEN 700
    ELSE IF rtype = "layered_shell" THEN 550
    ELSE 500

BaseScore(rtype) ==
    IF rtype \in {"smurfing (fan-in)", "smurfing (fan-out)"} THEN 700
    ELSE IF rtype = "cycle" THEN 650
    ELSE IF rtype = "layered_shell" THEN 550
    ELSE 500

\* ring_val: the amounts of the edges whose source and target are both
\* among the ring's members
RingVolume(g, member_names) ==
    LET inside == SelectIdx(g.es, {i \in 1..Len(g.es) :
                      /\ g.name[g.es[i].source] \in member_names
                      /\ g.name[g.es[i].target] \in member_names})
    IN  SumSeq([i \in 1..Len(inside) |-> inside[i].amount])

VolScore(ring_val) ==
    IF ring_val > 50000 THEN 150 ELSE IF ring_val > 20000 THEN 100 ELSE 0

NodeScore(node_count) ==
    IF node_count >= 10 THEN 100 ELSE IF node_count >= 5 THEN 50 ELSE 0

\* min(99.5, x)
CapScore_None(x) == x

CapScore(x) == IF x < 995 THEN x ELSE 995

\* the decimal digits of n
RECURSIVE Digits(_)
Digits(n) == IF n < 10 THEN <<n>> ELSE Append(Digits(n \div 10), n % 10)

\* f"{ring_counter:03d}": at least three digits, zeros in front
Format03d_Unpadded(n) == Digits(n)

Format03d(n) ==
    IF Len(Digits(n)) < 3
    THEN Repeat(0, 3 - Len(Digits(n))) \o Digits(n)
    ELSE Digits(n)

\* f"RING_{ring_counter:03d}"
RingId(n) == [prefix |-> "RING_", digits |-> Format03d(n)]

\* one pass of `for member in sorted_members` over account_ring_memberships,
\* a list of entries in insertion order
UpdateMembership(memberships, member, ring_id, rtype, total_ring_score) ==
    LET known == {i \in 1..Len(memberships) : memberships[i].account = member}
        at    == IF known = {} THEN Len(memberships) + 1 ELSE SetMin(known)
        old   == IF known = {}
                 THEN [account |-> member, rings |-> <<>>, patterns |-> {},
                       max_ring_score |-> 0]
                 ELSE memberships[at]
        new   == [old EXCEPT !.rings = Append(@, ring_id),
                             !.patterns = @ \cup {rtype},
                             !.max_ring_score =
                                 IF total_ring_score > @ THEN total_ring_score ELSE @]
    IN  [i \in 1..(IF known = {} THEN Len(memberships) + 1 ELSE Len(memberships)) |->
            IF i = at THEN new ELSE memberships[i]]

RECURSIVE UpdateMemberships(_, _, _, _, _, _)
UpdateMemberships(memberships, sorted_members, i, ring_id, rtype, total_ring_score) ==
    IF i > Len(sorted_members) THEN memberships
    ELSE UpdateMemberships(
             Strict(UpdateMembership(memberships, sorted_members[i], ring_id, rtype,
                                     total_ring_score)),
             sorted_members, i + 1, ring_id, rtype, total_ring_score)

\* the order of two strings of digits, character by character
RECURSIVE LexLeq(_, _)
LexLeq(a, b) ==
    IF a = <<>> THEN TRUE
    ELSE IF b = <<>> THEN FALSE
    ELSE IF a[1] # b[1] THEN a[1] < b[1]
    ELSE LexLeq(Tail(a), Tail(b))

\* sorted(data["rings"])[0]
PrimaryRing(ring_ids) ==
    CHOOSE r \in Range(ring_ids) :
        \A q \in Range(ring_ids) : LexLeq(r.digits, q.digits)

PatternRank(rtype) ==
    IF rtype = "cycle" THEN 1
    ELSE IF rtype = "smurfing (fan-in)" THEN 2
    ELSE IF rtype = "smurfing (fan-out)" THEN 3
    ELSE 4

\* list(data["patterns"]): a set has no order of its own
PatternList(patterns, sets) ==
    LET ranks == ListOfSet({PatternRank(t) : t \in patterns}, sets)
    IN  [i \in 1..Len(ranks) |-> CHOOSE t \in patterns : PatternRank(t) = ranks[i]]

\* the entry of final_accounts for one account
FinalAccount(data, sets) ==
    LET base_suspicion == data.max_ring_score
        overlap_bonus  == IF Cardinality(Range(data.rings)) > 1 THEN 200 ELSE 0
    IN  [account_id        |-> data.account,
         suspicion_score   |-> CapScore(base_suspicion + overlap_bonus),
         detected_patterns |-> PatternList(data.patterns, sets),
         ring_id           |-> PrimaryRing(data.rings)]

\* final_accounts.sort(key=suspicion_score, reverse=True): a stable sort
SortByScoreDesc(accs) ==
    LET n == Len(accs)
        before(j, i) ==
            \/ accs[j].suspicion_score > accs[i].suspicion_score
            \/ accs[j].suspicion_score = accs[i].suspicion_score /\ j < i
        rank == Strict([i \in 1..n |-> Cardinality({j \in 1..n : before(j, i)}) + 1])
    IN  Strict([k \in 1..n |-> accs[CHOOSE i \in 1..n : rank[i] = k]])

\* the body of `for ring in rings`, on the loop's variables
ScoreStep(g, ring, st) ==
    LET rtype   == ring.type
        members == ring.members
        sorted_members   == Sorted(members)
        ring_val         == RingVolume(g, Range(sorted_members))
        total_ring_score == CapScore(BaseScore(rtype) + VolScore(ring_val)
                                         + NodeScore(Len(members)))
        ring_sig         == <<sorted_members, rtype>>
        ring_id          == RingId(st.ring_counter)
    IN  IF ring_sig \in st.seen_ring_ids
        THEN st
        ELSE [seen_ring_ids   |-> st.seen_ring_ids \cup {ring_sig},
              ring_counter    |-> st.ring_counter + 1,
              formatted_rings |->
                  Append(st.formatted_rings,
                         [ring_id         |-> ring_id,
                          member_accounts |-> sorted_members,
                          pattern_type    |-> rtype,
                          risk_score      |-> total_ring_score]),
              account_ring_memberships |->
                  UpdateMemberships(st.account_ring_memberships, sorted_members,
                                    1, ring_id, rtype, total_ring_score)]

\* the loop's variables before the first ring
ScoreStart ==
    [seen_ring_ids |-> {}, ring_counter |-> 1, formatted_rings |-> <<>>,
     account_ring_memberships |-> <<>>]

\* for ring in rings: the rings i..Len(rs)
RECURSIVE ScoreRings(_, _, _, _)
ScoreRings(g, rs, i, st) ==
    IF i > Len(rs) THEN st
    ELSE ScoreRings(g, rs, i + 1, ScoreStep(g, rs[i], st))

\* final_accounts: one entry per account, sorted by score
FinalAccounts(memberships, sets) ==
    SortByScoreDesc([i \in 1..Len(memberships) |->
        FinalAccount(memberships[i], sets)])

-----------------------------------------------------------------------------
(* Inputs of the cycle detector: small ledgers over NAcc accounts *)

NAcc == 3

MaxEdges == 3

MaxLenArg == 2

Accounts == 1..NAcc

\* a transaction record of the ledger
Tx(s, r, a, t) == [sender_id |-> s, receiver_id |-> r, amount |-> a, timestamp |-> t]

\* the ordered pairs of accounts, numbered 0 .. NAcc*NAcc-1
PairOf(c) == <<(c \div NAcc) + 1, (c % NAcc) + 1>>

AllPairs == 0..(NAcc * NAcc - 1)

\* the subsets of S of at most n elements
RECURSIVE SubsetsUpTo(_, _)
SubsetsUpTo(S, n) ==
    IF n = 0 \/ S = {} THEN {{}}
    ELSE LET x == SetMax(S)
         IN  SubsetsUpTo(S \ {x}, n) \cup {T \cup {x} : T \in SubsetsUpTo(S \ {x}, n - 1)}

\* the ledger listing the chosen pairs in the order of their numbers, one
\* transaction of `amount` each, `gap` minutes apart
PairLedger(P, amount, gap) ==
    LET cs == SetToSeqAsc(P)
    IN  [i \in 1..Len(cs) |-> Tx(PairOf(cs[i])[1], PairOf(cs[i])[2], amount, i * gap)]

\* HubCap transfers of each account of H to itself: with one more outgoing
\* edge the account is a hub (out-degree above HubCap)
HubPadding(H) ==
    Flatten([k \in 1..Len(SetToSeqAsc(H)) |->
                Repeat(Tx(SetToSeqAsc(H)[k], SetToSeqAsc(H)[k], 100, 0), HubCap)])

\* a second, parallel copy of the ledger's first transaction
Parallel(df) == IF df = <<>> THEN <<>> ELSE <<df[1]>>

\* every transfer between two different accounts, once
CompletePairs == {c \in AllPairs : PairOf(c)[1] # PairOf(c)[2]}

\* the ledgers given to the cycle detector: every choice of at most
\* MaxEdges pairs and the complete graph, alone and with a parallel edge
PlainLedgers ==
    LET base == {PairLedger(P, 100, 1) :
                    P \in SubsetsUpTo(AllPairs, MaxEdges) \cup {CompletePairs}}
    IN  base \cup {df \o Parallel(df) : df \in base}

\* the transfers among the first three accounts, with the first one, two
\* or three of them padded into hubs
TrianglePairs == {(s - 1) * NAcc + (r - 1) : s, r \in {x \in 1..3 : x <= NAcc}} \cap CompletePairs

HubLedgers ==
    {PairLedger(P, 100, 1) \o HubPadding({x \in 1..h : x <= NAcc}) :
        P \in SUBSET TrianglePairs, h \in 1..3}

LenArgs ==
    {la \in (1..MaxLenArg) \X (1..MaxLenArg) : la[1] <= la[2]} \cup {<<3, 5>>}

HubLenArgs == {<<1, MaxLenArg>>, <<3, 5>>}

DefaultArgs ==
    [min_len |-> 3, max_len |-> 5, min_hops |-> 3,
     window_hours |-> 72, count_threshold |-> 10]

DefaultOrder == [ties |-> "stable", hub_ties |-> "stable", sets |-> "asc"]

InitRest ==
    /\ graph = MkGraph(<<>>, <<>>)
    /\ pc = "start"
    /\ cycles = <<>>
    /\ smurfs = <<>>
    /\ shells = <<>>
    /\ rings = <<>>
    /\ ring_pos = 1
    /\ seen_ring_ids = {}
    /\ ring_counter = 1
    /\ formatted_rings = <<>>
    /\ account_ring_memberships = <<>>
    /\ final_accounts = <<>>

InitCycles ==
    /\ \/ /\ ledger \in PlainLedgers
          /\ \E la \in LenArgs :
                args = [DefaultArgs EXCEPT !.min_len = la[1], !.max_len = la[2]]
       \/ /\ ledger \in HubLedgers
          /\ \E la \in HubLenArgs :
                args = [DefaultArgs EXCEPT !.min_len = la[1], !.max_len = la[2]]
    /\ order = DefaultOrder
    /\ InitRest

\* main.py: graph = igraph.Graph.TupleList(edges, directed=True, ...)
BuildGraph ==
    /\ pc = "start"
    /\ graph' = TupleList(Edges(ledger))
    /\ pc' = "graph"
    /\ UNCHANGED <<ledger, args, order, cycles, smurfs, shells, rings, ring_pos,
                   seen_ring_ids, ring_counter, formatted_rings,
                   account_ring_memberships, final_accounts>>

\* cycles = find_cycles_dfs(graph, min_len, max_len)
CallFindCycles ==
    /\ pc = "graph"
    /\ cycles' = find_cycles_dfs(graph, args.min_len, args.max_len)
    /\ pc' = "done"
    /\ UNCHANGED <<ledger, graph, args, order, smurfs, shells, rings, ring_pos,
                   seen_ring_ids, ring_counter, formatted_rings,
                   account_ring_memberships, final_accounts>>

NextCycles == BuildGraph \/ CallFindCycles

SpecCycles == InitCycles /\ [][NextCycles]_vars

-----------------------------------------------------------------------------
(* Inputs of the smurfing detector: ledgers of at most MaxTx transfers to  *)
(* or from account 1 (transfers of account 1 to itself included)           *)

MaxTx == 3

SmurfAccounts == {1, 2, 3}

HubPairs == {<<1, c>> : c \in SmurfAccounts} \cup {<<c, 1>> : c \in SmurfAccounts}

\* the timestamps of a ledger: rows `gap` minutes apart, listed in time
\* order or against it; 60 minutes is the window used
Gaps == {<<0, FALSE>>, <<60, FALSE>>, <<60, TRUE>>, <<61, FALSE>>}

Stamp(i, gp) == IF gp[2] THEN (MaxTx - i) * gp[1] ELSE (i - 1) * gp[1]

\* the amounts of a ledger: base + delta on the odd rows, base on the even
\* rows; around the mean of 2000 and the standard deviation of 1
AmountPatterns == {<<2000, 0>>, <<2002, 0>>, <<1999, 1>>, <<1998, 2>>}

Amount(i, pat) == pat[1] + (i % 2) * pat[2]

SmurfLedgers ==
    UNION {{[i \in 1..n |-> Tx(ps[i][1], ps[i][2], Amount(i, pat), Stamp(i, gp))] :
               ps \in [1..n -> HubPairs], pat \in AmountPatterns, gp \in Gaps} :
           n \in 1..MaxTx}

Thresholds == {1, 2}

\* the other order: a hub's rows of equal timestamp come out against the
\* ledger's order, and sets are listed from the largest element
Orders ==
    {DefaultOrder, [ties |-> "reversed", hub_ties |-> "stable", sets |-> "desc"]}

InitSmurf ==
    /\ ledger \in SmurfLedgers
    /\ \E t \in Thresholds :
          args = [DefaultArgs EXCEPT !.window_hours = 1, !.count_threshold = t]
    /\ order \in Orders
    /\ InitRest

\* smurfs = detect_smurfing(df, window_hours, count_threshold)
CallDetectSmurfing ==
    /\ pc = "start"
    /\ smurfs' = detect_smurfing(ledger, args.window_hours, args.count_threshold, order)
    /\ pc' = "done"
    /\ UNCHANGED <<ledger, graph, args, order, cycles, shells, rings, ring_pos,
                   seen_ring_ids, ring_counter, formatted_rings,
                   account_ring_memberships, final_accounts>>

NextSmurf == CallDetectSmurfing

SpecSmurf == InitSmurf /\ [][NextSmurf]_vars

-----------------------------------------------------------------------------
(* Inputs of the shell detector: every graph of at most MaxEdges transfers *)
(* among four accounts, the chain 1 -> 2 -> 3 -> 4 -> 5 with at most       *)
(* MaxExtra further transfers, listed in either direction, and the fork    *)
(* 1 -> 2, 2 -> 3 -> 5, 2 -> 4 -> 5 with fewer further transfers           *)

MaxExtra == 2

\* the pairs among the accounts 1..n, the pair (s, r) written 10 * s + r
PairCodes(n) == {10 * s + r : s, r \in 1..n}

\* the pairs written in P as a list, ordered by sender and then receiver
PairSeq(P) ==
    LET codes == SetToSeqAsc(P)
    IN  [i \in 1..Len(codes) |-> <<codes[i] \div 10, codes[i] % 10>>]

\* one transfer of 100 per listed pair, one minute apart
ListLedger(ps) == [i \in 1..Len(ps) |-> Tx(ps[i][1], ps[i][2], 100, i)]

ChainPairs == <<<<1, 2>>, <<2, 3>>, <<3, 4>>, <<4, 5>>>>

ForkPairs == <<<<1, 2>>, <<2, 3>>, <<2, 4>>, <<3, 5>>, <<4, 5>>>>

ShellLedgers ==
    LET free  == {ListLedger(PairSeq(P)) :
                     P \in SubsetsUpTo(PairCodes(4), MaxEdges)}
        chain == {ListLedger(ChainPairs \o PairSeq(P)) :
                     P \in SubsetsUpTo(PairCodes(5), MaxExtra)}
        fork  == {ListLedger(ForkPairs \o PairSeq(P)) :
                     P \in SubsetsUpTo(PairCodes(5), MaxExtra - 1)}
    IN  free \cup chain \cup {Strict(Reverse(df)) : df \in chain} \cup fork

MinHops == {2, 3}

InitShells ==
    /\ ledger \in ShellLedgers
    /\ \E h \in MinHops : args = [DefaultArgs EXCEPT !.min_hops = h]
    /\ order = DefaultOrder
    /\ InitRest

\* shells = detect_shells(graph, min_hops)
CallDetectShells ==
    /\ pc = "graph"
    /\ shells' = detect_shells(graph, args.min_hops)
    /\ pc' = "done"
    /\ UNCHANGED <<ledger, graph, args, order, cycles, smurfs, rings, ring_pos,
                   seen_ring_ids, ring_counter, formatted_rings,
                   account_ring_memberships, final_accounts>>

NextShells == BuildGraph \/ CallDetectShells

SpecShells == InitShells /\ [][NextShells]_vars

-----------------------------------------------------------------------------
(* Inputs of the analysis: a ledger is made of                             *)
(*  - transfers among the accounts 1, 2, 3 (any choice of the six pairs),  *)
(*  - a burst around account 1: MaxPeers or MaxPeers - 1 peers (accounts   *)
(*    5, 6, ...) paying it, being paid by it, or both, with or without a   *)
(*    transfer of account 1 to itself,                                     *)
(*  - the chain 3 -> 21 -> 22 -> 23 -> 24, alone or with a burst.           *)
(* The detectors run with the arguments of main.py.                        *)

MaxPeers == 10

TriangleCodes == {12, 13, 21, 23, 31, 32}

\* one transfer of `amount` per pair of P, one minute apart
CoreLedger(P, amount) ==
    [i \in 1..Len(PairSeq(P)) |->
        Tx(PairSeq(P)[i][1], PairSeq(P)[i][2], amount, i)]

\* the transfers of k peers to account 1 (dir = "in") or from it, two at
\* each minute
BurstRows(dir, k, pat) ==
    [j \in 1..k |-> IF dir = "in"
                    THEN Tx(4 + j, 1, Amount(j, pat), 10 + (j \div 2))
                    ELSE Tx(1, 4 + j, Amount(j, pat), 10 + (j \div 2))]

\* the bursts: every direction, size and self-transfer with amounts of
\* 100 and 102, and one burst into account 1 of more than 20000 in all
Bursts ==
    {<<>>} \cup
    {(IF kind \in {"in", "both"} THEN BurstRows("in", k, <<100, 2>>) ELSE <<>>)
        \o (IF kind \in {"out", "both"} THEN BurstRows("out", k, <<100, 2>>) ELSE <<>>)
        \o (IF self THEN <<Tx(1, 1, 100, 10)>> ELSE <<>>) :
        kind \in {"in", "out", "both"}, k \in {MaxPeers - 1, MaxPeers},
        self \in BOOLEAN} \cup
    {BurstRows("in", MaxPeers, <<1998, 2>>) \o <<Tx(1, 1, 1998, 10)>>}

ChainRows == ListLedger(<<<<3, 21>>, <<21, 22>>, <<22, 23>>, <<23, 24>>>>)

\* a burst alone, or the chain with no burst or with a burst of MaxPeers
\* payers
Motifs ==
    {<<burst, <<>>>> : burst \in Bursts} \cup
    {<<burst, ChainRows>> : burst \in {<<>>, BurstRows("in", MaxPeers, <<100, 2>>)}}

AnalysisLedgers ==
    {Strict(CoreLedger(P, amount) \o motif[1] \o motif[2]) :
        P \in SUBSET TriangleCodes, amount \in {100, 30000}, motif \in Motifs}

Init ==
    /\ ledger \in AnalysisLedgers
    /\ args = DefaultArgs
    /\ order \in Orders
    /\ InitRest

\* main.py 3. Execution: the three detectors in sequence, their findings
\* appended to rings
RunDetectors ==
    /\ pc = "graph"
    /\ LET found_cycles == find_cycles_dfs(graph, args.min_len, args.max_len)
           found_smurfs == detect_smurfing(ledger, args.window_hours,
                                           args.count_threshold, order)
           found_shells == detect_shells(graph, args.min_hops)
       IN  /\ cycles' = found_cycles
           /\ smurfs' = found_smurfs
           /\ shells' = found_shells
           /\ rings' = found_cycles \o found_smurfs \o found_shells
    /\ pc' = "score"
    /\ UNCHANGED <<ledger, graph, args, order, ring_pos, seen_ring_ids,
                   ring_counter, formatted_rings, account_ring_memberships,
                   final_accounts>>

\* one iteration of `for ring in rings`
ScoreRing ==
    /\ pc = "score"
    /\ ring_pos <= Len(rings)
    /\ LET st == ScoreStep(graph, rings[ring_pos],
                           [seen_ring_ids   |-> seen_ring_ids,
                            ring_counter    |-> ring_counter,
                            formatted_rings |-> formatted_rings,
                            account_ring_memberships |-> account_ring_memberships])
       IN  /\ seen_ring_ids' = st.seen_ring_ids
           /\ ring_counter' = st.ring_counter
           /\ formatted_rings' = st.formatted_rings
           /\ account_ring_memberships' = st.account_ring_memberships
    /\ ring_pos' = ring_pos + 1
    /\ UNCHANGED <<ledger, graph, args, order, pc, cycles, smurfs, shells, rings,
                   final_accounts>>

\* main.py 4b. Finalize Accounts
FinalizeAccounts ==
    /\ pc = "score"
    /\ ring_pos > Len(rings)
    /\ final_accounts' = FinalAccounts(account_ring_memberships, order.sets)
    /\ pc' = "done"
    /\ UNCHANGED <<ledger, graph, args, order, cycles, smurfs, shells, rings,
                   ring_pos, seen_ring_ids, ring_counter, formatted_rings,
                   account_ring_memberships>>

Next == BuildGraph \/ RunDetectors \/ ScoreRing \/ FinalizeAccounts

Spec == Init /\ [][Next]_vars

-----------------------------------------------------------------------------
(* Claims about find_cycles_dfs, checked under SpecCycles *)

\* the rotations of a sequence
Rotations(p) ==
    {SubSeq(p, k, Len(p)) \o SubSeq(p, 1, k - 1) : k \in 1..Len(p)}

HasEdge(g, u, v) == v \in Range(g.succ[u])

\* the members of a finding as vertex indices of g
MemberIndices(g, f) == [i \in 1..Len(f.members) |-> IndexIn(g.name, f.members[i])]

\* the simple directed cycles of g with n vertices, as vertex sequences
SimpleCycles(g, n) ==
    {p \in [1..n -> Vs(g)] :
        /\ \A i, j \in 1..n : i # j => p[i] # p[j]
        /\ \A i \in 1..n : HasEdge(g, p[i], p[(i % n) + 1])}

IsHub(g, v) == OutDegree(g, v) > HubCap

\* C1: find_cycles_dfs never returns two findings whose member sequences are
\* rotations of each other, and every rotation of a found path has the same
\* canonical key (the rotation starting at the minimum vertex index).
C1_NoRotatedDuplicates ==
    pc = "done" =>
        /\ \A i, j \in 1..Len(cycles) :
              i # j => cycles[j].members \notin Rotations(cycles[i].members)
        /\ \A i \in 1..Len(cycles) :
              LET path == MemberIndices(graph, cycles[i])
              IN  \A r \in Rotations(path) :
                     /\ Canonical(r) = Canonical(path)
                     /\ Canonical(r)[1] = SetMin(Range(path))

\* a cycle of three accounts, every one of them a start candidate, with a
\* parallel edge, has been reported
C1_Witness ==
    /\ pc = "done"
    /\ \E i \in 1..Len(cycles) :
          LET path == MemberIndices(graph, cycles[i])
          IN  /\ Len(path) = 3
              /\ \A k \in 1..3 : IsCycleCandidate(graph, path[k])
              /\ Cardinality({e \in 1..ecount(graph) :
                                 graph.es[e].source = path[1]
                                 /\ graph.es[e].target = path[2]}) >= 2

\* C2: every finding is a simple directed cycle of the graph in traversal
\* order, its metadata.length is its number of members and lies in
\* [min_len, max_len]; with min_len = 3 a graph of at most two accounts
\* (a 2-hop loop, a self-loop) yields no finding.
C2_FindingsAreBoundedSimpleCycles ==
    pc = "done" =>
        /\ \A i \in 1..Len(cycles) :
              LET f == cycles[i]
                  n == Len(f.members)
              IN  /\ f.type = "cycle"
                  /\ MemberIndices(graph, f) \in SimpleCycles(graph, n)
                  /\ f.metadata.length = n
                  /\ args.min_len <= n /\ n <= args.max_len
        /\ (args.min_len = 3 /\ vcount(graph) <= 2) => cycles = <<>>

\* with the default bounds a 2-hop loop A->B->A is in the graph next to a
\* reported 3-cycle
C2_Witness ==
    /\ pc = "done"
    /\ args.min_len = 3 /\ args.max_len = 5
    /\ \E u, v \in Vs(graph) : u # v /\ HasEdge(graph, u, v) /\ HasEdge(graph, v, u)
    /\ \E i \in 1..Len(cycles) : cycles[i].metadata.length = 3

\* the findings that report the cycle p (some rotation of it)
FindingsOf(p) ==
    {i \in 1..Len(cycles) : MemberIndices(graph, cycles[i]) \in Rotations(p)}

\* C3 as stated: every simple cycle with min_len..max_len vertices is reported
\* exactly once, whatever the degrees of its vertices.
C3_CompleteWhateverDegrees ==
    pc = "done" =>
        \A n \in args.min_len..args.max_len :
            \A p \in SimpleCycles(graph, n) : Cardinality(FindingsOf(p)) = 1

\* C3 amended: every simple cycle with min_len..max_len vertices that has a
\* vertex of out-degree at most 100 is reported exactly once; a cycle all of
\* whose vertices are hubs has no start candidate and is not reported.
C3_CompleteUnlessAllHubs ==
    pc = "done" =>
        \A n \in args.min_len..args.max_len :
            \A p \in SimpleCycles(graph, n) :
                Cardinality(FindingsOf(p)) =
                    IF \E k \in 1..n : ~IsHub(graph, p[k]) THEN 1 ELSE 0

\* a reported 3-cycle runs through a hub and a vertex that is no hub
C3_Witness ==
    /\ pc = "done"
    /\ \E p \in SimpleCycles(graph, 3) :
          /\ \E k \in 1..3 : IsHub(graph, p[k])
          /\ \E k \in 1..3 : ~IsHub(graph, p[k])
          /\ Cardinality(FindingsOf(p)) = 1

-----------------------------------------------------------------------------
(* Claims about detect_smurfing, checked under SpecSmurf *)

\* the rows of the ledger whose hub_col is hub
HubRows(hub_col, hub) == {i \in 1..Len(ledger) : ledger[i][hub_col] = hub}

\* some group of the hub's transactions spans at most window_hours and
\* involves at least count_threshold distinct counterparties
Burst(hub_col, peer_col, hub) ==
    \E grp \in SUBSET HubRows(hub_col, hub) :
        /\ \A i, j \in grp :
              ledger[i].timestamp - ledger[j].timestamp <= 60 * args.window_hours
        /\ Cardinality({ledger[i][peer_col] : i \in grp}) >= args.count_threshold

\* the findings of the given type whose central node is hub
SmurfFindings(type, hub) ==
    {k \in 1..Len(smurfs) :
        smurfs[k].type = type /\ smurfs[k].metadata.central_node = hub}

MeanAbove2000(hub_col, hub) ==
    SumSeq(Amounts(SelectIdx(ledger, HubRows(hub_col, hub))))
        > 2000 * Cardinality(HubRows(hub_col, hub))

LedgerAccounts ==
    {ledger[i].sender_id : i \in 1..Len(ledger)}
        \cup {ledger[i].receiver_id : i \in 1..Len(ledger)}

\* C4: an account that the merchant test (fan-in) or the payroll test
\* (fan-out) does not exclude is the hub of a finding if and only if some
\* group of its transactions spans at most window_hours and involves at
\* least count_threshold distinct counterparties; a receiver with exactly
\* count_threshold distinct senders in such a group is reported with
\* unique_peers = count_threshold.
C4_FindingIffBurst ==
    pc = "done" =>
        \A hub \in LedgerAccounts :
            /\ ~MeanAbove2000("receiver_id", hub) =>
                  /\ SmurfFindings("smurfing (fan-in)", hub) # {}
                        <=> Burst("receiver_id", "sender_id", hub)
                  /\ /\ Burst("receiver_id", "sender_id", hub)
                     /\ Cardinality({ledger[i].sender_id :
                                        i \in HubRows("receiver_id", hub)})
                            = args.count_threshold
                     => \E k \in SmurfFindings("smurfing (fan-in)", hub) :
                           smurfs[k].metadata.unique_peers = args.count_threshold
            /\ ~PayrollTrap(SelectIdx(ledger, HubRows("sender_id", hub))) =>
                  SmurfFindings("smurfing (fan-out)", hub) # {}
                      <=> Burst("sender_id", "receiver_id", hub)

\* a receiver is reported with exactly count_threshold = 2 senders although
\* its transactions as a whole span more than the window
C4_Witness ==
    /\ pc = "done"
    /\ args.count_threshold = 2
    /\ \E k \in 1..Len(smurfs) :
          LET rows == HubRows("receiver_id", smurfs[k].metadata.central_node)
          IN  /\ smurfs[k].type = "smurfing (fan-in)"
              /\ smurfs[k].metadata.unique_peers = 2
              /\ \E i, j \in rows :
                    ledger[i].timestamp - ledger[j].timestamp
                        > 60 * args.window_hours

\* C5: a receiver whose mean received amount exceeds 2000 is the hub of no
\* fan-in finding, and a sender whose payments all have the same amount, or
\* who has a single transaction, is the hub of no fan-out finding.
C5_SuppressedHubsNeverReported ==
    pc = "done" =>
        \A hub \in LedgerAccounts :
            /\ MeanAbove2000("receiver_id", hub) =>
                  SmurfFindings("smurfing (fan-in)", hub) = {}
            /\ Cardinality({ledger[i].amount : i \in HubRows("sender_id", hub)}) <= 1
                  => SmurfFindings("smurfing (fan-out)", hub) = {}
            /\ Cardinality(HubRows("sender_id", hub)) = 1
                  => SmurfFindings("smurfing (fan-out)", hub) = {}

\* a receiver of mean amount above 2000 and a sender of identical payments
\* both have a burst of count_threshold counterparties and are not reported
C5_Witness ==
    /\ pc = "done"
    /\ \E hub \in LedgerAccounts :
          /\ MeanAbove2000("receiver_id", hub)
          /\ Burst("receiver_id", "sender_id", hub)
          /\ SmurfFindings("smurfing (fan-in)", hub) = {}
    /\ \E hub \in LedgerAccounts :
          /\ Cardinality(HubRows("sender_id", hub)) > 1
          /\ Cardinality({ledger[i].amount : i \in HubRows("sender_id", hub)}) = 1
          /\ Burst("sender_id", "receiver_id", hub)
          /\ SmurfFindings("smurfing (fan-out)", hub) = {}

-----------------------------------------------------------------------------
(* Claims about detect_shells, checked under SpecShells *)

\* a transfer of the ledger goes from a to b
Flow(a, b) ==
    \E i \in 1..Len(ledger) :
        ledger[i].sender_id = a /\ ledger[i].receiver_id = b

\* a pass-through account: it sends and receives, two or three transfers in
\* all (a transfer to itself is one sent and one received)
IsLayer(a) ==
    LET sent     == Cardinality(HubRows("sender_id", a))
        received == Cardinality(HubRows("receiver_id", a))
    IN  sent >= 1 /\ received >= 1 /\ sent + received \in 2..3

Layers == {a \in LedgerAccounts : IsLayer(a)}

\* no transfer joins an account of S to a layer account of K outside S
ClosedIn(S, K) ==
    \A a \in S : \A b \in K \ S : ~Flow(a, b) /\ ~Flow(b, a)

\* the weakly connected components of the layer accounts
ShellComponents ==
    {K \in SUBSET Layers :
        /\ K # {}
        /\ ClosedIn(K, Layers)
        /\ \A S \in SUBSET K : (S # {} /\ S # K) => ~ClosedIn(S, K)}

\* every non-empty part of K has an account that sends to no account of it
Acyclic(K) ==
    \A S \in SUBSET K : S # {} => \E a \in S : \A b \in S : ~Flow(a, b)

\* C6: the chain of every shell finding is a weakly connected component of
\* the candidate vertices whose induced subgraph is acyclic, listed in
\* members in a topological order of it; a component with a directed cycle
\* is never reported.
C6_ShellChainsAreAcyclicAndOrdered ==
    pc = "done" =>
        /\ \A k \in 1..Len(shells) :
              \E K \in ShellComponents :
                  /\ Cardinality(K) = shells[k].metadata.layers
                  /\ K \subseteq Range(shells[k].members)
                  /\ Acyclic(K)
                  /\ \A a, b \in K :
                        Flow(a, b) => IndexIn(shells[k].members, a)
                                          < IndexIn(shells[k].members, b)
        /\ \A K \in ShellComponents :
              ~Acyclic(K) =>
                  \A k \in 1..Len(shells) : Range(shells[k].members) \cap K = {}

\* a chain of three layers is reported in an order that is not the order of
\* its vertices in the graph
C6_Witness ==
    /\ pc = "done"
    /\ \E k \in 1..Len(shells) :
          /\ shells[k].metadata.layers >= 3
          /\ \E a, b \in Layers \cap Range(shells[k].members) :
                /\ IndexIn(shells[k].members, a) < IndexIn(shells[k].members, b)
                /\ IndexIn(graph.name, a) > IndexIn(graph.name, b)

-----------------------------------------------------------------------------
(* Claims about analyze_transactions, checked under Spec *)

\* C7: every ring's risk_score and every account's suspicion_score lies
\* between 0 and 99.5, whatever base score and bonuses apply.
C7_ScoresWithinBounds ==
    /\ \A k \in 1..Len(formatted_rings) :
          formatted_rings[k].risk_score \in 0..995
    /\ \A k \in 1..Len(final_accounts) :
          final_accounts[k].suspicion_score \in 0..995

\* an account of two rings whose best ring score plus the overlap bonus
\* passes 99.5 is listed at 99.5
C7_Witness ==
    /\ pc = "done"
    /\ \E i \in 1..Len(account_ring_memberships) :
          /\ Cardinality(Range(account_ring_memberships[i].rings)) > 1
          /\ account_ring_memberships[i].max_ring_score + 200 > 995
          /\ \E k \in 1..Len(final_accounts) :
                /\ final_accounts[k].account_id = account_ring_memberships[i].account
                /\ final_accounts[k].suspicion_score = 995

\* C8: member_accounts of every ring is sorted ascending and lists each
\* account at most once.
C8_MembersSortedAndDistinct ==
    \A k \in 1..Len(formatted_rings) :
        \A i, j \in 1..Len(formatted_rings[k].member_accounts) :
            i < j => formatted_rings[k].member_accounts[i]
                         < formatted_rings[k].member_accounts[j]

\* the number of occurrences of x in s
Count(s, x) == Cardinality({i \in 1..Len(s) : s[i] = x})

\* two member lists hold the same accounts the same number of times
SameMembers(s, t) ==
    \A x \in Range(s) \cup Range(t) : Count(s, x) = Count(t, x)

\* the findings in the order they are processed
Findings == cycles \o smurfs \o shells

\* the findings that repeat no earlier finding's members and type
FirstOfItsKind ==
    {i \in 1..Len(Findings) :
        \A j \in 1..(i - 1) :
            ~(/\ Findings[j].type = Findings[i].type
              /\ SameMembers(Findings[j].members, Findings[i].members))}

\* the number written by a string of digits
RECURSIVE DigitsValue(_)
DigitsValue(d) ==
    IF d = <<>> THEN 0
    ELSE 10 * DigitsValue(SubSeq(d, 1, Len(d) - 1)) + d[Len(d)]

\* C9: the k-th ring is the k-th finding that repeats no earlier one, in
\* processing order (cycles, smurfing, shells); its ring_id is RING_ and k
\* zero-padded to 3 digits, so a skipped finding consumes no identifier;
\* no two rings share both member list and pattern type.
C9_RingIdsSequential ==
    pc = "done" =>
        /\ Len(formatted_rings) = Cardinality(FirstOfItsKind)
        /\ \A k \in 1..Len(formatted_rings) :
              LET r == formatted_rings[k]
                  f == Findings[SetToSeqAsc(FirstOfItsKind)[k]]
              IN  /\ r.ring_id.prefix = "RING_"
                  /\ DigitsValue(r.ring_id.digits) = k
                  /\ Len(r.ring_id.digits) >= 3
                  /\ Len(r.ring_id.digits) > 3 => r.ring_id.digits[1] # 0
                  /\ r.pattern_type = f.type
                  /\ SameMembers(r.member_accounts, f.members)
        /\ \A k, l \in 1..Len(formatted_rings) :
              k < l => ~(/\ formatted_rings[k].member_accounts
                                = formatted_rings[l].member_accounts
                         /\ formatted_rings[k].pattern_type
                                = formatted_rings[l].pattern_type)

\* a finding is skipped as a repetition and a later finding becomes a ring
C9_Witness ==
    /\ pc = "done"
    /\ \E i \in (1..Len(Findings)) \ FirstOfItsKind :
          \E j \in FirstOfItsKind : j > i

\* the ledger A -> B, B -> C, C -> A: 100 each, one minute apart
TriangleLedger == <<Tx(1, 2, 100, 1), Tx(2, 3, 100, 2), Tx(3, 1, 100, 3)>>

\* C10: for the ledger A -> B, B -> C, C -> A the analysis finds exactly one
\* cycle, its members a rotation of A, B, C, and reports it as a ring of
\* pattern_type "cycle" with a risk score of at least 65.0.
C10_TriangleIsOneCycleRing ==
    (ledger = TriangleLedger /\ pc = "done") =>
        /\ Len(cycles) = 1
        /\ cycles[1].type = "cycle"
        /\ cycles[1].members \in Rotations(<<1, 2, 3>>)
        /\ Cardinality({k \in 1..Len(formatted_rings) :
                           formatted_rings[k].pattern_type = "cycle"}) = 1
        /\ \E k \in 1..Len(formatted_rings) :
              /\ formatted_rings[k].pattern_type = "cycle"
              /\ formatted_rings[k].member_accounts = <<1, 2, 3>>
              /\ formatted_rings[k].risk_score >= 650

\* the triangle ledger analysed: its only ring scores the base 65.0
C10_Witness ==
    /\ ledger = TriangleLedger
    /\ pc = "done"
    /\ Len(formatted_rings) = 1
    /\ formatted_rings[1].risk_score = 650

\* a second run of the analysis over the same ledger with the unordered
\* choices o: the smurfing detector is the only one that takes them, the
\* graph and the other detectors' findings are functions of the ledger
Rerun(o) ==
    LET found == detect_smurfing(ledger, args.window_hours,
                                 args.count_threshold, o)
        st    == ScoreRings(graph, cycles \o found \o shells, 1, ScoreStart)
    IN  [fraud_rings |-> st.formatted_rings,
         accounts    |-> FinalAccounts(st.account_ring_memberships, o.sets)]

\* what the claim compares of the accounts: score and primary ring of each
AccountView(accs) ==
    {<<accs[i].account_id, accs[i].suspicion_score, accs[i].ring_id>> :
        i \in 1..Len(accs)}

\* the rows of a hub that share their timestamp with a row of another peer
TiedRows(hub_col, peer_col, hub) ==
    {i \in HubRows(hub_col, hub) :
        \E j \in HubRows(hub_col, hub) :
            /\ ledger[j].timestamp = ledger[i].timestamp
            /\ ledger[j][peer_col] # ledger[i][peer_col]}

\* C11: two runs of the analysis over the same ledger give the same
\* fraud_rings (ring ids, member lists, risk scores) and the same suspicion
\* score and primary ring for every account, whatever the iteration order of
\* the smurfing detector's counterparty sets and whatever the order the
\* timestamp sort gives to rows of equal timestamp.
C11_RunsAgree ==
    pc = "done" =>
        \A o \in Orders \ {order} :
            /\ Rerun(o).fraud_rings = formatted_rings
            /\ AccountView(Rerun(o).accounts) = AccountView(final_accounts)

\* a finished run with a smurfing ring around a hub whose rows have equal
\* timestamps, where the detector under the other order returns the
\* counterparties in another order
C11_Witness ==
    /\ pc = "done"
    /\ \E k \in 1..Len(smurfs) :
          /\ smurfs[k].type = "smurfing (fan-out)"
          /\ TiedRows("sender_id", "receiver_id", smurfs[k].metadata.central_node) # {}
          /\ \E f \in 1..Len(formatted_rings) :
                formatted_rings[f].pattern_type = smurfs[k].type
    /\ \E o \in Orders \ {order} :
          detect_smurfing(ledger, args.window_hours, args.count_threshold, o)
              # smurfs

\* the distinct counterparties of the hub's transactions made from minute a
\* to minute b
WindowPeers(hub_col, peer_col, hub, a, b) ==
    {ledger[i][peer_col] :
        i \in {j \in HubRows(hub_col, hub) :
                  a <= ledger[j].timestamp /\ ledger[j].timestamp <= b}}

\* the windows over the hub's transactions: from one of their timestamps to
\* a later one, at most window_hours apart
Windows(hub_col, hub) ==
    {w \in {<<ledger[i].timestamp, ledger[j].timestamp>> :
                i, j \in HubRows(hub_col, hub)} :
        w[1] <= w[2] /\ w[2] - w[1] <= 60 * args.window_hours}

\* the counterparties a finding reports: its members after the hub
ReportedPeers(f) == SubSeq(f.members, 2, Len(f.members))

LargestWindowReported(f, hub_col, peer_col) ==
    LET hub == f.metadata.central_node
    IN  /\ f.members[1] = hub
        /\ Len(ReportedPeers(f)) = Cardinality(Range(ReportedPeers(f)))
        /\ f.metadata.unique_peers = Len(ReportedPeers(f))
        /\ \E w \in Windows(hub_col, hub) :
              Range(ReportedPeers(f)) = WindowPeers(hub_col, peer_col, hub, w[1], w[2])
        /\ \A w \in Windows(hub_col, hub) :
              Cardinality(WindowPeers(hub_col, peer_col, hub, w[1], w[2]))
                  <= f.metadata.unique_peers

\* C12: in every smurfing finding the reported counterparties are exactly
\* the distinct counterparties of the hub's transactions inside one window
\* of at most window_hours, and no window of that duration over the hub's
\* transactions has more distinct counterparties than unique_peers.
C12_LargestWindowReported ==
    pc = "done" =>
        \A k \in 1..Len(smurfs) :
            IF smurfs[k].type = "smurfing (fan-in)"
            THEN LargestWindowReported(smurfs[k], "receiver_id", "sender_id")
            ELSE LargestWindowReported(smurfs[k], "sender_id", "receiver_id")

\* a finding of two counterparties for count_threshold = 1 whose hub has
\* transactions more than window_hours apart: the window ending at the
\* first row qualifies with one counterparty and a later, larger one is
\* reported
C12_Witness ==
    /\ pc = "done"
    /\ args.count_threshold = 1
    /\ \E k \in 1..Len(smurfs) :
          LET hub  == smurfs[k].metadata.central_node
              rows == HubRows("receiver_id", hub)
          IN  /\ smurfs[k].type = "smurfing (fan-in)"
              /\ smurfs[k].metadata.unique_peers = 2
              /\ \E i, j \in rows :
                    ledger[j].timestamp - ledger[i].timestamp
                        > 60 * args.window_hours
              /\ \E i \in rows :
                    /\ \A j \in rows : ledger[i].timestamp <= ledger[j].timestamp
                    /\ WindowPeers("receiver_id", "sender_id", hub,
                                   ledger[i].timestamp, ledger[i].timestamp)
                           = {ledger[i].sender_id}

\* the chain portion of a shell finding's members: its layer accounts, in
\* the order of members (heads and tails are never layer accounts)
ChainOf(f) == SelectIdx(f.members, {i \in 1..Len(f.members) : IsLayer(f.members[i])})

\* C13: in every shell finding the chain portion of members is a hop
\* sequence: each consecutive pair of chain vertices is joined by a
\* transfer from the earlier to the later one, for every component accepted
\* by the near-linearity test.
C13_ChainIsHopSequence ==
    pc = "done" =>
        \A k \in 1..Len(shells) :
            \A i \in 1..(Len(ChainOf(shells[k])) - 1) :
                Flow(ChainOf(shells[k])[i], ChainOf(shells[k])[i + 1])

\* s lists the accounts of S, each once
Lists(s, S) == Range(s) = S /\ Len(s) = Cardinality(S)

\* the members of a shell finding are heads, chain and tails in this order,
\* each account once: the heads are the accounts outside the chain that pay
\* its first vertex, the tails those paid by its last vertex
HeadsChainTails(f) ==
    LET chain == ChainOf(f)
        n     == Len(f.members)
        heads == {a \in LedgerAccounts \ Range(chain) : Flow(a, chain[1])}
        tails == {b \in LedgerAccounts \ Range(chain) : Flow(chain[Len(chain)], b)}
    IN  \E nh \in 0..(n - Len(chain)) :
            /\ Lists(SubSeq(f.members, 1, nh), heads)
            /\ SubSeq(f.members, nh + 1, nh + Len(chain)) = chain
            /\ Lists(SubSeq(f.members, nh + Len(chain) + 1, n), tails \ heads)

\* C14: in every shell finding members is the head names, then the ordered
\* chain, then the tail names, duplicates removed keeping the first
\* occurrence; metadata.size is the number of entries of members and
\* metadata.layers the number of chain vertices, also when a head has
\* parallel edges into the chain start or an account is both head and tail.
C14_SizeCountsMembers ==
    pc = "done" =>
        \A k \in 1..Len(shells) :
            /\ HeadsChainTails(shells[k])
            /\ shells[k].metadata.size = Len(shells[k].members)
            /\ shells[k].metadata.layers = Len(ChainOf(shells[k]))

=============================================================================
